---- MODULE Spec2Model ----
(***************************************************************************)
(* Model of the balance aggregation and valuation engine of the SafeJet    *)
(* exchange API (WalletService.getBalances and its helpers in              *)
(* src/safejet-exchange-api/src/wallet/wallet.service.ts).                 *)
(*                                                                         *)
(* Strings that carry decimal numbers are modelled as sequences of         *)
(* one-character strings (<<"1","0",".","5">> is "10.5"), so that parsing  *)
(* and printing are real conversions.  A column without a value (null)     *)
(* and the empty string are both falsy and both coerce to the number 0:    *)
(* the code treats them alike (`x || '0'`, `x * y`), and both are the      *)
(* empty sequence.                                                         *)
(***************************************************************************)
EXTENDS Integers, Sequences, FiniteSets

(***************************************************************************)
(* Bounds of the model.                                                    *)
(***************************************************************************)
MaxRecords == 3
MaxPage == 3
MaxLimit == 2

\* the clients that have a call in progress at the same time
MaxClients == 2

\* the wallet rows of the user in the runs with interleaved calls
MaxWallets == 2

(***************************************************************************)
(* decimal.js: a Decimal is coefficient * 10^e, the coefficient held as    *)
(* its digits, least significant first, without leading or trailing zero   *)
(* digits; zero is the empty coefficient.  Only non-negative values occur  *)
(* (amounts and prices).  Every arithmetic operation rounds its result to  *)
(* Precision significant digits, half up (the library's defaults, which    *)
(* the service never changes).                                             *)
(***************************************************************************)
Precision == 20

Digits == <<"0", "1", "2", "3", "4", "5", "6", "7", "8", "9">>

IsDigit(ch) == ch \in {"0", "1", "2", "3", "4", "5", "6", "7", "8", "9"}

DigitVal(ch) ==
  CASE ch = "0" -> 0 [] ch = "1" -> 1 [] ch = "2" -> 2 [] ch = "3" -> 3
    [] ch = "4" -> 4 [] ch = "5" -> 5 [] ch = "6" -> 6 [] ch = "7" -> 7
    [] ch = "8" -> 8 [] ch = "9" -> 9

RECURSIVE Pow10(_)

Max(a, b) == IF a >= b THEN a ELSE b

Min(a, b) == IF a <= b THEN a ELSE b

Pow10(n) == IF n = 0 THEN 1 ELSE 10 * Pow10(n - 1)

\* the sequence a function over 1..n stands for, computed once
AsSeq(f) == SubSeq(f, 1, Len(f))

Zeros(n) == AsSeq([i \in 1..n |-> 0])

Reverse(s) == AsSeq([i \in 1..Len(s) |-> s[Len(s) + 1 - i]])

\* digit i of a little-endian coefficient, 0 beyond its length
DigitAt(c, i) == IF i >= 1 /\ i <= Len(c) THEN c[i] ELSE 0

DecZero == [c |-> <<>>, e |-> 0]

\* the least and the greatest element of a non-empty set of integers
Least(S) == CHOOSE i \in S : \A j \in S : i <= j

Greatest(S) == CHOOSE i \in S : \A j \in S : i >= j

\* canonical form of coefficient c with exponent e: the zero digits at both
\* ends are dropped
Normalise(c, e) ==
  LET n == Len(c)
  IN  IF n = 0 THEN DecZero
      ELSE IF c[1] # 0 /\ c[n] # 0 THEN [c |-> c, e |-> e]
      ELSE LET nonZero == {i \in 1..n : c[i] # 0}
           IN  IF nonZero = {} THEN DecZero
               ELSE [c |-> SubSeq(c, Least(nonZero), Greatest(nonZero)),
                     e |-> e + Least(nonZero) - 1]

\* a + b on little-endian digit sequences (schoolbook, with carry)
RECURSIVE AddFrom(_, _, _, _, _)

AddFrom(a, b, i, carry, done) ==
  IF i > Len(a) /\ i > Len(b) THEN Append(done, carry)
  ELSE LET d == DigitAt(a, i) + DigitAt(b, i) + carry
       IN  AddFrom(a, b, i + 1, d \div 10, Append(done, d % 10))

AddDigits(a, b) == AddFrom(a, b, 1, 0, <<>>)

\* a * b on little-endian digit sequences (schoolbook): column k of the
\* product is the sum of a[i] * b[k + 1 - i], and the columns are carried
RECURSIVE ColumnFrom(_, _, _, _, _)

ColumnFrom(a, b, k, i, sum) ==
  IF i > Len(a) \/ i > k THEN sum
  ELSE ColumnFrom(a, b, k, i + 1, sum + a[i] * DigitAt(b, k + 1 - i))

RECURSIVE MulFrom(_, _, _, _, _)

MulFrom(a, b, k, carry, done) ==
  IF k > Len(a) + Len(b) THEN done
  ELSE LET d == ColumnFrom(a, b, k, 1, 0) + carry
       IN  MulFrom(a, b, k + 1, d \div 10, Append(done, d % 10))

MulDigits(a, b) ==
  IF Len(a) <= Len(b) THEN MulFrom(a, b, 1, 0, <<>>) ELSE MulFrom(b, a, 1, 0, <<>>)

\* x rounded to p significant digits, half up
RoundTo(x, p) ==
  IF Len(x.c) <= p THEN x
  ELSE LET drop == Len(x.c) - p
           kept == SubSeq(x.c, drop + 1, Len(x.c))
           up   == IF x.c[drop] >= 5 THEN AddDigits(kept, <<1>>) ELSE kept
       IN  Normalise(up, x.e + drop)

\* the coefficients of x and y over their common (smaller) exponent
Aligned(x, y) ==
  LET e == Min(x.e, y.e)
  IN  [a |-> IF x.c = <<>> THEN <<>> ELSE Zeros(x.e - e) \o x.c,
       b |-> IF y.c = <<>> THEN <<>> ELSE Zeros(y.e - e) \o y.c,
       e |-> e]

\* the exact sum, not rounded
ExactPlus(x, y) ==
  IF x.c = <<>> THEN y
  ELSE IF y.c = <<>> THEN x
  ELSE LET al == Aligned(x, y) IN Normalise(AddDigits(al.a, al.b), al.e)

\* the exact product, not rounded
ExactTimes(x, y) ==
  IF x.c = <<>> \/ y.c = <<>> THEN DecZero
  ELSE Normalise(MulDigits(x.c, y.c), x.e + y.e)

\* Decimal.prototype.plus
Plus(x, y) == RoundTo(ExactPlus(x, y), Precision)

\* Decimal.prototype.times
Times(x, y) == RoundTo(ExactTimes(x, y), Precision)

\* Decimal.prototype.isZero
IsZero(x) == x.c = <<>>

\* the sign of x - y: -1, 0 or 1
Cmp(x, y) ==
  LET al == Aligned(x, y)
      n  == Max(Len(al.a), Len(al.b))
      differ == {i \in 1..n : DigitAt(al.a, i) # DigitAt(al.b, i)}
  IN  IF differ = {} THEN 0
      ELSE IF DigitAt(al.a, Greatest(differ)) > DigitAt(al.b, Greatest(differ))
      THEN 1 ELSE 0 - 1

(***************************************************************************)
(* Decimal <-> string.  new Decimal(str) accepts digits with at most one   *)
(* decimal point and an optional exponent part and throws on anything      *)
(* else; it does not round.  toString prints plain notation, or            *)
(* exponential notation when the exponent of the leading digit is <= -7    *)
(* or >= 21.                                                               *)
(***************************************************************************)
ToExpNeg == 0 - 7

ToExpPos == 21

\* first position of ch in s, 0 when absent
IndexOf(s, ch) ==
  LET hits == {i \in 1..Len(s) : s[i] = ch}
  IN  IF hits = {} THEN 0 ELSE Least(hits)

AllDigits(s) == \A i \in 1..Len(s) : IsDigit(s[i])

\* the number written by a sequence of digit characters
CharsToNat(s) ==
  LET val[i \in 0..Len(s)] ==
        IF i = 0 THEN 0 ELSE val[i - 1] * 10 + DigitVal(s[i])
  IN  val[Len(s)]

\* the digit characters of n >= 0
NatToChars(n) ==
  LET count == CHOOSE k \in 1..9 : n < Pow10(k) /\ \A j \in 1..(k - 1) : n >= Pow10(j)
  IN  AsSeq([i \in 1..count |-> Digits[((n \div Pow10(count - i)) % 10) + 1]])

MantissaPart(s) ==
  LET k == IndexOf(s, "e") IN IF k = 0 THEN s ELSE SubSeq(s, 1, k - 1)

ExponentPart(s) ==
  LET k == IndexOf(s, "e") IN IF k = 0 THEN <<>> ELSE SubSeq(s, k + 1, Len(s))

MantissaDigits(m) ==
  LET k == IndexOf(m, ".")
  IN  IF k = 0 THEN m ELSE SubSeq(m, 1, k - 1) \o SubSeq(m, k + 1, Len(m))

FractionLen(m) ==
  LET k == IndexOf(m, ".") IN IF k = 0 THEN 0 ELSE Len(m) - k

ExponentDigits(x) ==
  IF x # <<>> /\ x[1] \in {"+", "-"} THEN Tail(x) ELSE x

\* does new Decimal(s) accept s
IsDecimalString(s) ==
  LET m == MantissaPart(s)
      x == ExponentPart(s)
  IN  /\ MantissaDigits(m) # <<>>
      /\ AllDigits(MantissaDigits(m))
      /\ IndexOf(s, "e") # 0 =>
           /\ ExponentDigits(x) # <<>>
           /\ AllDigits(ExponentDigits(x))

\* new Decimal(s), for a string it accepts
ParseDecimal(s) ==
  LET m  == MantissaPart(s)
      x  == ExponentPart(s)
      xd == ExponentDigits(x)
      ex == IF x = <<>> THEN 0
            ELSE IF x[1] = "-" THEN 0 - CharsToNat(xd)
            ELSE CharsToNat(xd)
      md == MantissaDigits(m)
      n  == Len(md)
  IN  Normalise(AsSeq([i \in 1..n |-> DigitVal(md[n + 1 - i])]), ex - FractionLen(m))

\* Decimal.prototype.toString
DecimalToString(x) ==
  IF x.c = <<>> THEN <<"0">>
  ELSE
    LET n   == Len(x.c)
        big == AsSeq([i \in 1..n |-> Digits[x.c[n + 1 - i] + 1]])
        lead == x.e + n - 1
    IN  IF lead <= ToExpNeg \/ lead >= ToExpPos
        THEN (IF n = 1 THEN big ELSE <<big[1], ".">> \o Tail(big))
             \o <<"e", IF lead < 0 THEN "-" ELSE "+">>
             \o NatToChars(IF lead < 0 THEN 0 - lead ELSE lead)
        ELSE IF x.e >= 0 THEN big \o AsSeq([i \in 1..x.e |-> "0"])
        ELSE IF lead >= 0
             THEN SubSeq(big, 1, lead + 1) \o <<".">> \o SubSeq(big, lead + 2, n)
        ELSE <<"0", ".">> \o AsSeq([i \in 1..(0 - lead - 1) |-> "0"]) \o big

(***************************************************************************)
(* The stores.  One user; a wallet is known by its id; a token row is      *)
(* joined to every balance row the query returns.                          *)
(***************************************************************************)
WalletIds == {"w1", "w2", "w3", "w4"}

TokenIds == {"t1", "t2", "t3", "t4"}

BalanceTypes == {"spot", "funding"}

\* the token table (a token row is known by blockchain, symbol and contract
\* address, lines 224-230): two tokens of symbol ETH on two chains, with a
\* name and prices of their own, and two tokens of symbol
\* DOGE, of which the one on its own chain has no price yet (the columns are
\* NULL) and the one on the other chain has
Tokens ==
  [id \in TokenIds |->
     IF id = "t1" THEN
       [id |-> "t1", symbol |-> "ETH", baseSymbol |-> "ETH", name |-> "Ethereum",
        decimals |-> 18, blockchain |-> "ethereum", networkVersion |-> "NATIVE",
        currentPrice |-> <<"2">>, changePercent24h |-> <<"5">>]
     ELSE IF id = "t2" THEN
       [id |-> "t2", symbol |-> "ETH", baseSymbol |-> "ETH",
        name |-> "Binance-Peg Ethereum",
        decimals |-> 18, blockchain |-> "bsc", networkVersion |-> "BEP20",
        currentPrice |-> <<"1", ".", "5">>,
        changePercent24h |-> <<"-", "1", "0">>]
     ELSE IF id = "t3" THEN
       [id |-> "t3", symbol |-> "DOGE", baseSymbol |-> "DOGE", name |-> "Dogecoin",
        decimals |-> 8, blockchain |-> "dogecoin", networkVersion |-> "NATIVE",
        currentPrice |-> <<>>, changePercent24h |-> <<>>]
     ELSE
       [id |-> "t4", symbol |-> "DOGE", baseSymbol |-> "DOGE", name |-> "Dogecoin",
        decimals |-> 8, blockchain |-> "bsc", networkVersion |-> "BEP20",
        currentPrice |-> <<"0", ".", "1">>, changePercent24h |-> <<"5">>]]

\* the amounts written by updateBalance: "0", "0.000000000000000005" (five
\* units of the smallest fraction of an 18-decimals token), "100",
\* "100.00000000000000001" (an amount of Precision digits), the empty string
\* and "1.2.3"
LongAmount == <<"1", "0", "0", ".">> \o AsSeq([i \in 1..16 |-> "0"]) \o <<"1">>

EmptyAmount == <<>>

MalformedAmount == <<"1", ".", "2", ".", "3">>

Amounts ==
  { <<"0">>,
    <<"0", ".">> \o AsSeq([i \in 1..17 |-> "0"]) \o <<"5">>,
    <<"1", "0", "0">>,
    LongAmount, EmptyAmount, MalformedAmount }

\* the (wallet, token, type) rows that updateBalance is called for: two
\* wallets of one chain hold the same token, the other tokens have a wallet each
BalanceKeys ==
  { <<"w1", "t1", "spot">>, <<"w2", "t1", "spot">>, <<"w1", "t1", "funding">>,
    <<"w3", "t2", "spot">>, <<"w4", "t3", "spot">> }

TinyAmount == <<"0", ".">> \o AsSeq([i \in 1..17 |-> "0"]) \o <<"5">>

\* the updateBalance calls, as <<<<walletId, tokenId, type>>, amount>>: "0",
\* "0.000000000000000005" and "100" for the first row, the tiny amount for
\* the row of the second wallet, "100" for the funding row, the tiny amount,
\* "100" and the long amount for the row of the second chain, and "100", the
\* empty string and "1.2.3" for the row of the token without a price
Writes ==
  {w \in BalanceKeys \X Amounts :
     \/ w[1] = <<"w1", "t1", "spot">> /\ w[2] \in {<<"0">>, TinyAmount, <<"1", "0", "0">>}
     \/ w[1] = <<"w2", "t1", "spot">> /\ w[2] = TinyAmount
     \/ w[1] = <<"w1", "t1", "funding">> /\ w[2] = <<"1", "0", "0">>
     \/ w[1][2] = "t2" /\ w[2] \in {TinyAmount, <<"1", "0", "0">>, LongAmount}
     \/ w[1][2] = "t3" /\ w[2] \in {<<"1", "0", "0">>, EmptyAmount, MalformedAmount}}

\* String.prototype.localeCompare on the symbols of the token table
SymbolOrder == <<"DOGE", "ETH">>

localeCompare(a, b) ==
  LET ra == CHOOSE i \in 1..Len(SymbolOrder) : SymbolOrder[i] = a
      rb == CHOOSE i \in 1..Len(SymbolOrder) : SymbolOrder[i] = b
  IN  IF ra < rb THEN 0 - 1 ELSE IF ra > rb THEN 1 ELSE 0

(***************************************************************************)
(* processBalancesWithNetworks.  The Map is a sequence of key/value pairs  *)
(* in insertion order; Array.prototype.sort is stable.                     *)
(***************************************************************************)
\* `x || '0'`
OrZero(s) == IF s = <<>> THEN <<"0">> ELSE s

\* MapKey without the type
MapKey_BaseSymbolOnly(balance) == balance.token.baseSymbol \o "_"

\* the Map key, line 360
MapKey(balance) == balance.token.baseSymbol \o "_" \o balance.type

\* rawBalance, line 361
rawBalance(balance) == OrZero(balance.balance)

\* usdValue, lines 362-368: new Decimal(rawBalance).times(price)
usdValueOf(balance) ==
  Times(ParseDecimal(rawBalance(balance)),
        ParseDecimal(OrZero(balance.token.currentPrice)))

\* networkBalance, lines 370-376
networkBalance(balance, usdValue) ==
  [blockchain |-> balance.token.blockchain,
   networkVersion |-> balance.token.networkVersion,
   balance |-> rawBalance(balance),
   type |-> balance.type,
   usdValue |-> DecimalToString(usdValue)]

\* MergeInto that does not list a contribution twice
MergeInto_Deduplicate(existing, balance, usdValue) ==
  [existing EXCEPT
     !.balance = DecimalToString(Plus(ParseDecimal(existing.balance),
                                      ParseDecimal(rawBalance(balance)))),
     !.usdValue = DecimalToString(Plus(ParseDecimal(existing.usdValue), usdValue)),
     !.networks =
        IF \E n \in 1..Len(existing.networks) :
             existing.networks[n] = networkBalance(balance, usdValue)
        THEN existing.networks
        ELSE Append(existing.networks, networkBalance(balance, usdValue))]

\* MergeInto that takes the display metadata of the record it merges
MergeInto_LastMetadata(existing, balance, usdValue) ==
  [existing EXCEPT
     !.symbol = balance.token.symbol,
     !.name = balance.token.name,
     !.decimals = balance.token.decimals,
     !.balance = DecimalToString(Plus(ParseDecimal(existing.balance),
                                      ParseDecimal(rawBalance(balance)))),
     !.usdValue = DecimalToString(Plus(ParseDecimal(existing.usdValue), usdValue)),
     !.networks = Append(existing.networks, networkBalance(balance, usdValue))]

\* the branch `combinedBalances.has(key)`, lines 379-386
MergeInto(existing, balance, usdValue) ==
  [existing EXCEPT
     !.balance = DecimalToString(Plus(ParseDecimal(existing.balance),
                                      ParseDecimal(rawBalance(balance)))),
     !.usdValue = DecimalToString(Plus(ParseDecimal(existing.usdValue), usdValue)),
     !.networks = Append(existing.networks, networkBalance(balance, usdValue))]

\* the else branch, lines 388-398: the entry of a key seen for the first time
NewEntry(balance, usdValue) ==
  [symbol |-> balance.token.symbol,
   baseSymbol |-> balance.token.baseSymbol,
   name |-> balance.token.name,
   decimals |-> balance.token.decimals,
   balance |-> DecimalToString(ParseDecimal(rawBalance(balance))),
   usdValue |-> DecimalToString(usdValue),
   type |-> balance.type,
   token |-> balance.token,
   networks |-> <<networkBalance(balance, usdValue)>>]

\* Combine that sets the key to a new entry whether the Map has it or not
Combine_SetsNewEntry(combined, balance) ==
  LET key == MapKey(balance)
      usdValue == usdValueOf(balance)
  IN  IF \E i \in 1..Len(combined) : combined[i].k = key
      THEN AsSeq([i \in 1..Len(combined) |->
                    IF combined[i].k = key
                    THEN [k |-> key, v |-> NewEntry(balance, usdValue)]
                    ELSE combined[i]])
      ELSE Append(combined, [k |-> key, v |-> NewEntry(balance, usdValue)])

\* one step of the forEach, lines 359-400
Combine(combined, balance) ==
  LET key == MapKey(balance)
      usdValue == usdValueOf(balance)
  IN  IF \E i \in 1..Len(combined) : combined[i].k = key
      THEN AsSeq([i \in 1..Len(combined) |->
                    IF combined[i].k = key
                    THEN [k |-> key, v |-> MergeInto(combined[i].v, balance, usdValue)]
                    ELSE combined[i]])
      ELSE Append(combined, [k |-> key, v |-> NewEntry(balance, usdValue)])

\* the Map after the forEach
combinedBalances(balances) ==
  LET acc[i \in 0..Len(balances)] ==
        IF i = 0 THEN <<>> ELSE Combine(acc[i - 1], balances[i])
  IN  acc[Len(balances)]

\* SortCompare without the branches for values that are zero
SortCompare_ValueOnly(a, b) ==
  Cmp(ParseDecimal(b.usdValue), ParseDecimal(a.usdValue))

\* the sort comparator, lines 404-419, as the sign of the number it returns
\* (the difference of two values of at most Precision digits is not rounded
\* to zero, and toNumber keeps its sign)
SortCompare(a, b) ==
  LET valueA == ParseDecimal(a.usdValue)
      valueB == ParseDecimal(b.usdValue)
  IN  IF ~IsZero(valueA) /\ ~IsZero(valueB) THEN Cmp(valueB, valueA)
      ELSE IF ~IsZero(valueA) THEN 0 - 1
      ELSE IF ~IsZero(valueB) THEN 1
      ELSE localeCompare(a.symbol, b.symbol)

\* InsertSorted that puts x before the elements it compares equal to
InsertSorted_BeforeEqual(sorted, x) ==
  LET n == Cardinality({i \in 1..Len(sorted) : SortCompare(sorted[i], x) < 0})
  IN  SubSeq(sorted, 1, n) \o <<x>> \o SubSeq(sorted, n + 1, Len(sorted))

\* x put behind the elements of the sorted sequence that do not come after it
InsertSorted(sorted, x) ==
  LET n == Cardinality({i \in 1..Len(sorted) : SortCompare(sorted[i], x) <= 0})
  IN  SubSeq(sorted, 1, n) \o <<x>> \o SubSeq(sorted, n + 1, Len(sorted))

\* Array.prototype.sort with SortCompare (stable)
SortEntries(entries) ==
  LET acc[i \in 0..Len(entries)] ==
        IF i = 0 THEN <<>> ELSE InsertSorted(acc[i - 1], entries[i])
  IN  acc[Len(entries)]

\* Array.from(combinedBalances.values()), line 403
MapValues(combined) == AsSeq([i \in 1..Len(combined) |-> combined[i].v])

processBalancesWithNetworks(balances) ==
  SortEntries(MapValues(combinedBalances(balances)))

(***************************************************************************)
(* JavaScript numbers.  A binary64 carries 53 bits, between 15 and 17      *)
(* significant decimal digits; a number is modelled as a signed decimal    *)
(* and every arithmetic result is rounded to NumberDigits significant      *)
(* digits.  The integers of the pagination block are plain integers.       *)
(***************************************************************************)
NumberDigits == 17

NumZero == [neg |-> FALSE, c |-> <<>>, e |-> 0]

\* the number with magnitude d (a Decimal) and the given sign, rounded
MakeNum(neg, d) ==
  LET r == RoundTo(d, NumberDigits)
  IN  IF r.c = <<>> THEN NumZero ELSE [neg |-> neg, c |-> r.c, e |-> r.e]

Magnitude(x) == [c |-> x.c, e |-> x.e]

\* Decimal.prototype.toNumber
toNumber(d) == MakeNum(FALSE, d)

\* a - b on little-endian digit sequences, for a >= b (schoolbook, with
\* borrow)
RECURSIVE SubFrom(_, _, _, _, _)

SubFrom(a, b, i, borrow, done) ==
  IF i > Len(a) THEN done
  ELSE LET d == a[i] - DigitAt(b, i) - borrow
       IN  SubFrom(a, b, i + 1, IF d < 0 THEN 1 ELSE 0,
                   Append(done, IF d < 0 THEN d + 10 ELSE d))

SubDigits(a, b) == SubFrom(a, b, 1, 0, <<>>)

\* |x - y| for Decimals x >= y, exact
ExactMinus(x, y) ==
  LET al == Aligned(x, y) IN Normalise(SubDigits(al.a, al.b), al.e)

\* x + y on numbers
NumAdd(x, y) ==
  IF x.neg = y.neg THEN MakeNum(x.neg, ExactPlus(Magnitude(x), Magnitude(y)))
  ELSE IF Cmp(Magnitude(x), Magnitude(y)) >= 0
       THEN MakeNum(x.neg, ExactMinus(Magnitude(x), Magnitude(y)))
       ELSE MakeNum(y.neg, ExactMinus(Magnitude(y), Magnitude(x)))

\* x * y on numbers
NumMul(x, y) == MakeNum(x.neg # y.neg, ExactTimes(Magnitude(x), Magnitude(y)))

\* x > 0
NumPositive(x) == ~x.neg /\ x.c # <<>>

\* Number(s) for the text of a column: 0 for null, else the value of the
\* decimal string, which may carry a sign
NumOfString(s) ==
  IF s = <<>> THEN NumZero
  ELSE IF s[1] = "-" THEN MakeNum(TRUE, ParseDecimal(Tail(s)))
  ELSE MakeNum(FALSE, ParseDecimal(s))

\* a little-endian digit sequence without its zero digits at the high end
TrimHigh(c) ==
  IF c = <<>> \/ c[Len(c)] # 0 THEN c
  ELSE LET nonZero == {i \in 1..Len(c) : c[i] # 0}
       IN  IF nonZero = {} THEN <<>> ELSE SubSeq(c, 1, Greatest(nonZero))

\* a <= b on little-endian digit sequences without zero digits at the high end
RECURSIVE NatLeqFrom(_, _, _)

NatLeqFrom(a, b, i) ==
  IF i = 0 THEN TRUE
  ELSE IF a[i] # b[i] THEN a[i] < b[i]
  ELSE NatLeqFrom(a, b, i - 1)

NatLeq(a, b) ==
  IF Len(a) # Len(b) THEN Len(a) < Len(b) ELSE NatLeqFrom(a, b, Len(a))

\* the greatest digit q <= d with q times the divisor <= r
RECURSIVE QuotientDigit(_, _, _)

QuotientDigit(multiples, r, d) ==
  IF d = 0 \/ NatLeq(multiples[d + 1], r) THEN d
  ELSE QuotientDigit(multiples, r, d - 1)

\* long division: the digits D[i..] (most significant first) are brought
\* down one by one onto the remainder rem; multiples[d + 1] is d times the
\* divisor; q collects the quotient, least significant digit first
RECURSIVE DivFrom(_, _, _, _, _)

DivFrom(D, multiples, i, rem, q) ==
  IF i > Len(D) THEN q
  ELSE LET r  == TrimHigh(<<D[i]>> \o rem)
           qd == QuotientDigit(multiples, r, 9)
           left == IF qd = 0 THEN r ELSE TrimHigh(SubDigits(r, multiples[qd + 1]))
           quot == <<qd>> \o q
       IN  IF Len(left) <= Len(r) /\ Len(quot) = i
           THEN DivFrom(D, multiples, i + 1, left, quot)
           ELSE <<>>

\* x / y on numbers, for y # 0
NumDiv(x, y) ==
  IF x.c = <<>> THEN NumZero
  ELSE IF y.c = <<1>> THEN MakeNum(x.neg # y.neg, [c |-> x.c, e |-> x.e - y.e])
  ELSE LET k == NumberDigits + 2 + Len(y.c)
           D == Reverse(x.c) \o Zeros(k)
           multiples == AsSeq([d \in 1..10 |-> TrimHigh(MulDigits(y.c, <<d - 1>>))])
           q == DivFrom(D, multiples, 1, <<>>, <<>>)
       IN  MakeNum(x.neg # y.neg, Normalise(q, x.e - y.e - k))

\* the results of Math.ceil: a number, Infinity or NaN
JsNumber(v) == [kind |-> "number", v |-> v]

JsInfinity == [kind |-> "Infinity", v |-> 0]

JsNaN == [kind |-> "NaN", v |-> 0]

\* MathCeilDiv with Math.floor
MathCeilDiv_Floor(n, d) ==
  IF d = 0 THEN (IF n = 0 THEN JsNaN ELSE JsInfinity)
  ELSE IF d > 0 THEN JsNumber(n \div d)
  ELSE JsNumber(0 - ((n + (0 - d) - 1) \div (0 - d)))

\* Math.ceil(n / d) for integers n >= 0 and d
MathCeilDiv(n, d) ==
  IF d = 0 THEN (IF n = 0 THEN JsNaN ELSE JsInfinity)
  ELSE IF d > 0 THEN JsNumber((n + d - 1) \div d)
  ELSE JsNumber(0 - (n \div (0 - d)))

\* Array.prototype.slice(start, end)
JsSlice(arr, start, end) ==
  LET len == Len(arr)
      from == IF start < 0 THEN Max(len + start, 0) ELSE Min(start, len)
      to   == IF end < 0 THEN Max(len + end, 0) ELSE Min(end, len)
  IN  IF from >= to THEN <<>> ELSE SubSeq(arr, from + 1, to)


(***************************************************************************)
(* calculateTotal and getBalances                                          *)
(***************************************************************************)
\* the value of a field that an object does not have
Undefined == [kind |-> "undefined"]

\* null, the value of a column that is not set
Null == [kind |-> "null"]

\* calculateTotal(balances) with priceField = 'currentPrice'
calculateTotal(entries) ==
  LET acc[i \in 0..Len(entries)] ==
        IF i = 0 THEN NumZero
        ELSE NumAdd(acc[i - 1],
                    toNumber(Times(ParseDecimal(OrZero(entries[i].balance)),
                                   ParseDecimal(OrZero(entries[i].token.currentPrice)))))
  IN  acc[Len(entries)]

\* the rows of the query at lines 280-290, each with its token joined
QueryBalances(activeWallets, rows, type) ==
  LET hit(r) == r.walletId \in activeWallets /\ (type = "" \/ r.type = type)
      found == SelectSeq(rows, hit)
  IN  AsSeq([i \in 1..Len(found) |->
               [walletId |-> found[i].walletId, tokenId |-> found[i].tokenId,
                type |-> found[i].type, balance |-> found[i].balance,
                token |-> Tokens[found[i].tokenId]]])

\* displayBalances that also leaves out values below a cent
displayBalances_DustThreshold(processed, showZeroBalances) ==
  LET cent == ParseDecimal(<<"0", ".", "0", "1">>)
      nonZero(b) == Cmp(ParseDecimal(b.usdValue), cent) >= 0
  IN  IF showZeroBalances THEN processed ELSE SelectSeq(processed, nonZero)

\* the array without its zero-valued elements, each taken out with splice
\* while the loop walks the array by index
RECURSIVE SpliceZeroFrom(_, _)

SpliceZeroFrom(arr, i) ==
  IF i > Len(arr) THEN arr
  ELSE IF IsZero(ParseDecimal(arr[i].usdValue))
       THEN SpliceZeroFrom(SubSeq(arr, 1, i - 1) \o SubSeq(arr, i + 1, Len(arr)), i + 1)
       ELSE SpliceZeroFrom(arr, i + 1)

\* displayBalances that takes the zero-valued entries out in such a loop
displayBalances_SpliceInLoop(processed, showZeroBalances) ==
  IF showZeroBalances THEN processed ELSE SpliceZeroFrom(processed, 1)

\* displayBalances, line 296
displayBalances(processed, showZeroBalances) ==
  LET nonZero(b) == ~IsZero(ParseDecimal(b.usdValue))
  IN  IF showZeroBalances THEN processed ELSE SelectSeq(processed, nonZero)

\* paginatedBalances that counts pages from zero
paginatedBalances_FromPage(display, pagination) ==
  LET startIndex == pagination.page * pagination.limit
  IN  JsSlice(display, startIndex, startIndex + pagination.limit)

\* paginatedBalances, lines 308-310
paginatedBalances(display, pagination) ==
  LET startIndex == (pagination.page - 1) * pagination.limit
  IN  JsSlice(display, startIndex, startIndex + pagination.limit)

\* tokenRepository.findOne({ where: { symbol } }), line 317: the query names
\* no order, so the row it returns for a symbol that several tokens carry is
\* the database's choice; a choice is a row per symbol that the loop asks for
SymbolsOf(display) == {display[i].symbol : i \in 1..Len(display)}

FindOneChoices(display) ==
  {found \in [SymbolsOf(display) -> TokenIds] :
     \A sym \in SymbolsOf(display) : Tokens[found[sym]].symbol = sym}

Hundred == [neg |-> FALSE, c |-> <<1>>, e |-> 2]

\* lines 322-327: the sums after an entry of value currentValue whose token
\* has changed by percent
ChangeStep(sums, currentValue, percent) ==
  [totalChange24h |-> NumAdd(sums.totalChange24h,
                             NumMul(currentValue, NumDiv(percent, Hundred))),
   totalValue |-> NumAdd(sums.totalValue, currentValue)]

\* the passes of the loop from entry i on, lines 316-328
RECURSIVE ChangeFrom(_, _, _, _)

ChangeFrom(display, found, i, sums) ==
  IF i > Len(display) THEN sums
  ELSE LET token  == Tokens[found[display[i].symbol]]
           amount == NumOfString(display[i].balance)
       IN  ChangeFrom(display, found, i + 1,
                      IF NumPositive(amount)
                      THEN ChangeStep(sums,
                                      NumMul(amount, NumOfString(token.currentPrice)),
                                      NumOfString(token.changePercent24h))
                      ELSE sums)

\* the loop over displayBalances, lines 312-329
ChangeLoop(display, found) ==
  ChangeFrom(display, found, 1, [totalChange24h |-> NumZero, totalValue |-> NumZero])

\* changePercent24h, line 332
changePercent24h(loop) ==
  IF NumPositive(loop.totalValue)
  THEN NumMul(NumDiv(loop.totalChange24h, loop.totalValue), Hundred)
  ELSE NumZero

\* PaginationBlock with the total of the page
PaginationBlock_TotalOfPage(display, pagination) ==
  [total |-> Len(paginatedBalances(display, pagination)),
   page |-> pagination.page,
   limit |-> pagination.limit,
   totalPages |-> MathCeilDiv(Len(display), pagination.limit),
   hasMore |-> pagination.page * pagination.limit < Len(display)]

\* the pagination block of the response, lines 341-347
PaginationBlock(display, pagination) ==
  [total |-> Len(display),
   page |-> pagination.page,
   limit |-> pagination.limit,
   totalPages |-> MathCeilDiv(Len(display), pagination.limit),
   hasMore |-> pagination.page * pagination.limit < Len(display)]

\* the response of the branch without active wallets, lines 264-278; page and
\* limit are the values of lines 251-252
EmptyResponse(pagination) ==
  [balances |-> <<>>,
   total |-> NumZero,
   spotTotal |-> Undefined,
   fundingTotal |-> Undefined,
   change24h |-> NumZero,
   changePercent24h |-> NumZero,
   pagination |-> [total |-> 0,
                   page |-> Max(1, pagination.page),
                   limit |-> Max(1, pagination.limit),
                   totalPages |-> JsNumber(0),
                   hasMore |-> FALSE]]

\* the totals of lines 300-305
Totals(display) ==
  LET isSpot(b) == b.type = "spot"
      isFunding(b) == b.type = "funding"
  IN  [spotTotal |-> calculateTotal(SelectSeq(display, isSpot)),
       fundingTotal |-> calculateTotal(SelectSeq(display, isFunding))]

\* MainResponse with the totals of the entries of the page
MainResponse_TotalsOfPage(display, pagination, totals, loop, percent) ==
  [balances |-> paginatedBalances(display, pagination),
   total |-> NumAdd(Totals(paginatedBalances(display, pagination)).spotTotal,
                    Totals(paginatedBalances(display, pagination)).fundingTotal),
   spotTotal |-> Totals(paginatedBalances(display, pagination)).spotTotal,
   fundingTotal |-> Totals(paginatedBalances(display, pagination)).fundingTotal,
   change24h |-> loop.totalChange24h,
   changePercent24h |-> percent,
   pagination |-> PaginationBlock(display, pagination)]

\* the response of the main path, lines 334-348
MainResponse(display, pagination, totals, loop, percent) ==
  [balances |-> paginatedBalances(display, pagination),
   total |-> NumAdd(totals.spotTotal, totals.fundingTotal),
   spotTotal |-> totals.spotTotal,
   fundingTotal |-> totals.fundingTotal,
   change24h |-> loop.totalChange24h,
   changePercent24h |-> percent,
   pagination |-> PaginationBlock(display, pagination)]

(***************************************************************************)
(* State.                                                                  *)
(*   wallets   the user's rows of the wallets table                        *)
(*   balances  the wallet_balances rows, in the order the query returns    *)
(*             them                                                        *)
(*   frame     the arguments and locals of the getBalances call whose      *)
(*             response is being returned                                  *)
(*   response  what that call returned, or the error it threw              *)
(*   calls     the calls in progress of the clients that share the stores, *)
(*             each with its position and locals                           *)
(*   users     the rows of the users table                                 *)
(* A call is taken up when no response is pending: the response of one     *)
(* call is handed to the caller (Return) before the next call starts.      *)
(***************************************************************************)
VARIABLES wallets, balances, frame, response, calls, users

vars == <<wallets, balances, frame, response, calls, users>>

NoFrame == [op |-> "none"]

NoResponse == [kind |-> "none"]

\* the page and limit arguments: integers, zero and negative ones included
Pages == (0 - 1)..MaxPage

Limits == 0..MaxLimit

\* the default of the pagination parameter, line 241
DefaultPagination == [page |-> 1, limit |-> 20]

\* the wallets of a user who has one on every chain, and on both networks of
\* the first chain
WalletRows ==
  { [id |-> "w1", blockchain |-> "ethereum", network |-> "mainnet", status |-> "active"],
    [id |-> "w2", blockchain |-> "ethereum", network |-> "testnet", status |-> "active"],
    [id |-> "w3", blockchain |-> "bsc", network |-> "mainnet", status |-> "active"],
    [id |-> "w4", blockchain |-> "dogecoin", network |-> "mainnet", status |-> "active"] }

\* walletRepository.find({ where: { userId, status: 'active' } }), lines
\* 254-256, as the ids of the rows found (line 280)
ActiveWallets(rows) == {w.id : w \in {x \in rows : x.status = "active"}}

Clients == 1..MaxClients

Idle == [op |-> "idle"]

NoCalls == [c \in Clients |-> Idle]

UserIds == {"u1", "u2"}

\* a user row after registration: the 2FA columns have their defaults
NewUser ==
  [twoFactorEnabled |-> FALSE, twoFactorSecret |-> Null, twoFactorBackupCodes |-> Null]

NewUsers == [u \in UserIds |-> NewUser]

Init ==
  /\ wallets \in {{}, WalletRows}
  /\ balances = <<>>
  /\ frame = NoFrame
  /\ response = NoResponse
  /\ calls = NoCalls
  /\ users = NewUsers

\* updateBalance(userId, walletId, tokenId, amount, type), lines 192-220
\* lines 201-219: the row that findOne returns for the key is given the
\* amount, and a row is created when the key has none
SaveBalance(walletId, tokenId, amount, type) ==
  LET mine == {i \in 1..Len(balances) : /\ balances[i].walletId = walletId
                                        /\ balances[i].tokenId = tokenId
                                        /\ balances[i].type = type}
  IN  IF mine # {}
      THEN \E k \in mine :
             balances' = AsSeq([i \in 1..Len(balances) |->
                                  IF i = k THEN [balances[i] EXCEPT !.balance = amount]
                                  ELSE balances[i]])
      ELSE /\ Len(balances) < MaxRecords
           /\ balances' = Append(balances,
                                 [walletId |-> walletId, tokenId |-> tokenId,
                                  type |-> type, balance |-> amount])

updateBalance(walletId, tokenId, amount, type) ==
  /\ frame = NoFrame
  /\ \E w \in wallets : w.id = walletId
  /\ SaveBalance(walletId, tokenId, amount, type)
  /\ frame' = NoFrame
  /\ response' = NoResponse
  /\ UNCHANGED <<wallets, calls, users>>

\* the pagination arguments of the calls: any page and limit when all types
\* are asked for, the default when one type is
Paginations(type) ==
  IF type = "" THEN {[page |-> page, limit |-> limit] : page \in Pages, limit \in Limits}
  ELSE {DefaultPagination}

\* getBalances(userId, type, pagination, showZeroBalances), lines 238-353, in
\* the stages of its main path.  Each stage hands its locals to the next one;
\* an argument of the call is drawn in the stage that first reads it, the row
\* that findOne returns in the stage that asks for it.

\* lines 334-348: the slice of the page and the response
Respond(type, showZeroBalances, queried, created, processed, display, totals, found, loop, percent) ==
  \E pagination \in Paginations(type) :
    /\ frame' = [op |-> "getBalances", type |-> type, pagination |-> pagination,
                 showZeroBalances |-> showZeroBalances, branch |-> "main",
                 balances |-> queried, combinedBalances |-> created,
                 processedBalances |-> processed,
                 displayBalances |-> display, found |-> found,
                 totals |-> totals, loop |-> loop, changePercent24h |-> percent]
    /\ response' = MainResponse(display, pagination, totals, loop, percent)

\* line 332
Percentage(type, showZeroBalances, queried, created, processed, display, totals, found, loop) ==
  Respond(type, showZeroBalances, queried, created, processed, display, totals, found, loop,
          changePercent24h(loop))

\* lines 312-329
Change(type, showZeroBalances, queried, created, processed, display, totals) ==
  \E found \in FindOneChoices(display) :
    Percentage(type, showZeroBalances, queried, created, processed, display, totals, found,
               ChangeLoop(display, found))

\* lines 300-305
Total(type, showZeroBalances, queried, created, processed, display) ==
  Change(type, showZeroBalances, queried, created, processed, display, Totals(display))

\* lines 296-298
Display(type, queried, created, processed) ==
  \E showZeroBalances \in BOOLEAN :
    Total(type, showZeroBalances, queried, created, processed,
          displayBalances(processed, showZeroBalances))

\* new Decimal(rawBalance) and new Decimal(price), lines 362 and 365, accept
\* the fields of every record
Parses(queried) ==
  \A i \in 1..Len(queried) :
    /\ IsDecimalString(rawBalance(queried[i]))
    /\ IsDecimalString(OrZero(queried[i].token.currentPrice))

\* the error that the catch block logs and throws again, lines 349-352
ErrorResponse == [kind |-> "error"]

\* the values of the Map, sorted, lines 403-419
Sort(type, queried, created) ==
  Display(type, queried, created, SortEntries(created))

\* line 293; a record that new Decimal does not accept ends the call in the
\* catch block
Process(type, queried) ==
  IF Parses(queried)
  THEN Sort(type, queried, MapValues(combinedBalances(queried)))
  ELSE /\ frame' = [op |-> "getBalances", type |-> type, branch |-> "error",
                    balances |-> queried]
       /\ response' = ErrorResponse

\* getBalances that saves the rows with the amounts it has read as '0'
getBalances_SavesNormalisedRows(type) ==
  /\ frame = NoFrame
  /\ IF ActiveWallets(wallets) = {}
     THEN \E pagination \in Paginations(type), showZeroBalances \in BOOLEAN :
            /\ frame' = [op |-> "getBalances", type |-> type,
                         pagination |-> pagination,
                         showZeroBalances |-> showZeroBalances, branch |-> "noWallets",
                         balances |-> <<>>, processedBalances |-> <<>>,
                         displayBalances |-> <<>>, found |-> <<>>]
            /\ response' = EmptyResponse(pagination)
     ELSE Process(type, QueryBalances(ActiveWallets(wallets), balances, type))
  /\ balances' = AsSeq([i \in 1..Len(balances) |->
                          [balances[i] EXCEPT !.balance = OrZero(balances[i].balance)]])
  /\ UNCHANGED <<wallets, calls, users>>

getBalances(type) ==
  /\ frame = NoFrame
  /\ IF ActiveWallets(wallets) = {}
     THEN \E pagination \in Paginations(type), showZeroBalances \in BOOLEAN :
            /\ frame' = [op |-> "getBalances", type |-> type,
                         pagination |-> pagination,
                         showZeroBalances |-> showZeroBalances, branch |-> "noWallets",
                         balances |-> <<>>, processedBalances |-> <<>>,
                         displayBalances |-> <<>>, found |-> <<>>]
            /\ response' = EmptyResponse(pagination)
     ELSE Process(type, QueryBalances(ActiveWallets(wallets), balances, type))
  /\ UNCHANGED <<wallets, balances, calls, users>>

\* the response of the main path for the default pagination, lines 334-348
DefaultAnswer(display, totals, loop) ==
  MainResponse(display, DefaultPagination, totals, loop, changePercent24h(loop))

\* one response per row that findOne may return for the symbols of the display
DefaultAnswers(display, totals) ==
  {DefaultAnswer(display, totals, ChangeLoop(display, found)) :
     found \in FindOneChoices(display)}

\* the totals are those of the displayed entries, lines 296-310
DefaultDisplay(display) == DefaultAnswers(display, Totals(display))

\* the responses that getBalances(userId, type) may give on the records of its
\* query, with the default pagination and showZeroBalances = true: one per row
\* that findOne may return
DefaultResponses(queried) ==
  IF ~Parses(queried) THEN {ErrorResponse}
  ELSE DefaultDisplay(displayBalances(processBalancesWithNetworks(queried), TRUE))

\* the error of the catch block of getTotalBalance, lines 482-485
TotalBalanceError == [kind |-> "error", message |-> "Failed to calculate total balance"]

\* lines 451-455 for the currency USD: data.total is defined in both responses
\* of getBalances, so the branch of lines 461-481 is not taken
TotalOfData(type, data) ==
  /\ frame' = [op |-> "getTotalBalance", type |-> type, currency |-> "USD",
               branch |-> IF data = ErrorResponse THEN "error" ELSE "main",
               data |-> data]
  /\ response' = IF data = ErrorResponse THEN TotalBalanceError ELSE data.total

\* getTotalBalance that asks getBalances for the balances of all types
getTotalBalance_OfAllTypes(type) ==
  /\ frame = NoFrame
  /\ \E data \in (IF ActiveWallets(wallets) = {} THEN {EmptyResponse(DefaultPagination)}
                   ELSE DefaultResponses(QueryBalances(ActiveWallets(wallets), balances, ""))) :
       TotalOfData(type, data)
  /\ UNCHANGED <<wallets, balances, calls, users>>

\* getTotalBalance(userId, 'USD', type), lines 446-486; the conversion to
\* another currency goes through the exchange service
getTotalBalance(type) ==
  /\ frame = NoFrame
  /\ \E data \in (IF ActiveWallets(wallets) = {} THEN {EmptyResponse(DefaultPagination)}
                   ELSE DefaultResponses(QueryBalances(ActiveWallets(wallets), balances, type))) :
       TotalOfData(type, data)
  /\ UNCHANGED <<wallets, balances, calls, users>>

\* the response or the error leaves the service: `return { balances: ... }`,
\* lines 265 and 334, `throw error`, line 351, `return data.total`, line 454
Return ==
  /\ frame # NoFrame
  /\ frame' = NoFrame
  /\ response' = NoResponse
  /\ UNCHANGED <<wallets, balances, calls, users>>

Next ==
  \/ \E w \in Writes : updateBalance(w[1][1], w[1][2], w[2], w[1][3])
  \/ getBalances("")
  \/ \E type \in BalanceTypes : getBalances(type)
  \/ \E type \in BalanceTypes \cup {""} : getTotalBalance(type)
  \/ Return

Spec == Init /\ [][Next]_vars

(***************************************************************************)
(* The claims.  A claim about a call is stated on a state in which the     *)
(* call has answered: frame holds its arguments and locals, response its   *)
(* result.  A call that has thrown has failed.                             *)
(***************************************************************************)
Called == frame # NoFrame /\ frame.op = "getBalances"

Answered == Called /\ frame.branch # "error"

Failed == Called /\ frame.branch = "error"

\* the exact sum of the balance fields / the usdValue fields of a networks list
RECURSIVE ExactSumOfBalances(_)

ExactSumOfBalances(networks) ==
  IF networks = <<>> THEN DecZero
  ELSE ExactPlus(ParseDecimal(Head(networks).balance),
                 ExactSumOfBalances(Tail(networks)))

RECURSIVE ExactSumOfUsdValues(_)

ExactSumOfUsdValues(networks) ==
  IF networks = <<>> THEN DecZero
  ELSE ExactPlus(ParseDecimal(Head(networks).usdValue),
                 ExactSumOfUsdValues(Tail(networks)))

\* the (baseSymbol, type) pair of an input record and of an aggregated entry
RecordPair(balance) == <<balance.token.baseSymbol, balance.type>>

EntryPair(entry) == <<entry.baseSymbol, entry.type>>

\* C1: every aggregated entry's balance is the exact sum of the balance fields
\* of its networks, and its usdValue the exact sum of their usdValue fields.
C1_SumInvariant ==
  Answered =>
    \A i \in 1..Len(frame.processedBalances) :
      LET entry == frame.processedBalances[i]
      IN  /\ ParseDecimal(entry.balance) = ExactSumOfBalances(entry.networks)
          /\ ParseDecimal(entry.usdValue) = ExactSumOfUsdValues(entry.networks)

\* C2: the output holds exactly one entry per (baseSymbol, type) pair of the
\* input, and the contributions of an entry are those of the records of its
\* pair, whatever their blockchain or networkVersion.
C2_OneEntryPerBaseSymbolAndType ==
  Answered =>
    LET in  == frame.balances
        out == frame.processedBalances
    IN  /\ \A i, j \in 1..Len(out) :
             i # j => EntryPair(out[i]) # EntryPair(out[j])
        /\ {EntryPair(out[i]) : i \in 1..Len(out)}
             = {RecordPair(in[k]) : k \in 1..Len(in)}
        /\ \A i \in 1..Len(out) :
             /\ Len(out[i].networks)
                  = Cardinality({k \in 1..Len(in) :
                                   RecordPair(in[k]) = EntryPair(out[i])})
             /\ \A n \in 1..Len(out[i].networks) :
                  \E k \in 1..Len(in) :
                    /\ RecordPair(in[k]) = EntryPair(out[i])
                    /\ out[i].networks[n].blockchain = in[k].token.blockchain
                    /\ out[i].networks[n].networkVersion
                         = in[k].token.networkVersion
                    /\ out[i].networks[n].type = in[k].type

\* a call whose input has one base symbol under both types and, in one
\* entry, contributions of two blockchains
C2_Witness ==
  /\ Answered
  /\ \E i, j \in 1..Len(frame.processedBalances) :
       /\ frame.processedBalances[i].baseSymbol
            = frame.processedBalances[j].baseSymbol
       /\ frame.processedBalances[i].type # frame.processedBalances[j].type
  /\ \E i \in 1..Len(frame.processedBalances) :
       \E m, n \in 1..Len(frame.processedBalances[i].networks) :
         frame.processedBalances[i].networks[m].blockchain
           # frame.processedBalances[i].networks[n].blockchain

\* the permutations of 1..n, as sequences
Perms(n) ==
  {p \in [1..n -> 1..n] : \A i, j \in 1..n : i # j => p[i] # p[j]}

Permuted(s, p) == [i \in 1..Len(s) |-> s[p[i]]]

\* a networks list as a multiset: each contribution with its number of
\* occurrences
NetworksBag(networks) ==
  {<<networks[i], Cardinality({j \in 1..Len(networks) : networks[j] = networks[i]})>> :
     i \in 1..Len(networks)}

\* what two orderings are to agree on for an aggregated entry
EntrySummary(entry) ==
  [key |-> EntryPair(entry), symbol |-> entry.symbol, name |-> entry.name,
   decimals |-> entry.decimals,
   balance |-> ParseDecimal(entry.balance),
   usdValue |-> ParseDecimal(entry.usdValue),
   networks |-> NetworksBag(entry.networks)]

SummarySet(entries) == {EntrySummary(entries[i]) : i \in 1..Len(entries)}

\* C3: every ordering of the records of a call yields the same set of
\* aggregated entries: the same keys and, per key, the same symbol, name,
\* decimals, balance, usdValue and multiset of network contributions.
C3_PermutationInvariance ==
  Answered =>
    \A p \in Perms(Len(frame.balances)) :
      SummarySet(processBalancesWithNetworks(AsSeq(Permuted(frame.balances, p))))
        = SummarySet(frame.processedBalances)

\* the records of an input that belong to the pair of an entry, in input order
RecordsOf(in, entry) ==
  LET mine(balance) == RecordPair(balance) = EntryPair(entry)
  IN  SelectSeq(in, mine)

\* C4: the networks list of every aggregated entry holds one contribution per
\* record of the entry's pair, in the order in which the records occur in the
\* input: a later record's contribution comes behind the earlier ones, and
\* none is replaced, removed or merged with an identical one.
C4_ContributionsAppendedInInputOrder ==
  Answered =>
    \A i \in 1..Len(frame.processedBalances) :
      LET entry == frame.processedBalances[i]
          mine  == RecordsOf(frame.balances, entry)
      IN  /\ Len(entry.networks) = Len(mine)
          /\ \A n \in 1..Len(mine) :
               /\ entry.networks[n].blockchain = mine[n].token.blockchain
               /\ entry.networks[n].networkVersion = mine[n].token.networkVersion
               /\ entry.networks[n].balance = rawBalance(mine[n])
               /\ entry.networks[n].type = mine[n].type

\* an entry that keeps two contributions with the same blockchain,
\* networkVersion and amount, followed by one of another blockchain
C4_Witness ==
  /\ Answered
  /\ \E i \in 1..Len(frame.processedBalances) :
       LET networks == frame.processedBalances[i].networks
       IN  /\ Len(networks) = 3
           /\ networks[1] = networks[2]
           /\ networks[3].blockchain # networks[2].blockchain

\* usdValue of an entry is zero / the value of an entry
ZeroValued(entry) == \A i \in 1..Len(entry.usdValue) : entry.usdValue[i] \in {"0", "."}

ValueOf(entry) == ParseDecimal(entry.usdValue)

\* C5: in the sequence that the zero filter keeps, every entry with non-zero
\* usdValue precedes every entry with zero usdValue, the non-zero entries are
\* non-increasing in usdValue, and the zero-value entries are in ascending
\* order of symbol.
C5_SortOrder ==
  Answered =>
    \A i, j \in 1..Len(frame.displayBalances) :
      i < j =>
        LET a == frame.displayBalances[i]
            b == frame.displayBalances[j]
        IN  /\ ZeroValued(a) => ZeroValued(b)
            /\ (~ZeroValued(a) /\ ~ZeroValued(b)) => Cmp(ValueOf(a), ValueOf(b)) >= 0
            /\ (ZeroValued(a) /\ ZeroValued(b)) =>
                 \E m, n \in 1..Len(SymbolOrder) :
                   /\ SymbolOrder[m] = a.symbol
                   /\ SymbolOrder[n] = b.symbol
                   /\ m <= n

\* the entries in the order in which their keys were first seen
FirstSeenOrder(in) ==
  LET combined == combinedBalances(in)
  IN  [i \in 1..Len(combined) |-> combined[i].v]

\* three entries, a valued one and two zero-valued ones of different symbols,
\* that the sort has put in another order than the one they were created in
C5_Witness ==
  /\ Answered
  /\ Len(frame.displayBalances) = 3
  /\ ~ZeroValued(frame.displayBalances[1])
  /\ ZeroValued(frame.displayBalances[2])
  /\ frame.displayBalances[2].symbol # frame.displayBalances[3].symbol
  /\ AsSeq(FirstSeenOrder(frame.balances))[1] = frame.displayBalances[3]

\* C6: for page >= 1 and limit >= 1 the returned balances are the elements at
\* the zero-based positions (page-1)*limit .. (page-1)*limit+limit-1 of the
\* sorted, filtered sequence, fewer at the tail, in the same order.
C6_PageIsSliceOfSortedSequence ==
  (Answered /\ frame.pagination.page >= 1 /\ frame.pagination.limit >= 1) =>
    LET start == (frame.pagination.page - 1) * frame.pagination.limit
        rest  == Len(frame.displayBalances) - start
        count == IF rest < 0 THEN 0
                 ELSE IF rest < frame.pagination.limit THEN rest
                 ELSE frame.pagination.limit
    IN  /\ Len(response.balances) = count
        /\ \A k \in 1..count : response.balances[k] = frame.displayBalances[start + k]

\* page 2 with limit 1 of three entries: the page holds the second entry
C6_Witness ==
  /\ Answered
  /\ frame.pagination = [page |-> 2, limit |-> 1]
  /\ Len(frame.displayBalances) = 3
  /\ response.balances = <<frame.displayBalances[2]>>
  /\ frame.displayBalances[2] # frame.displayBalances[1]

\* C7: a page or limit below 1 is raised to 1, and the returned slice and the
\* pagination fields page, limit, totalPages and hasMore are those of the
\* raised values.
C7_PaginationNormalised ==
  (Answered /\ (frame.pagination.page < 1 \/ frame.pagination.limit < 1)) =>
    LET page  == IF frame.pagination.page < 1 THEN 1 ELSE frame.pagination.page
        limit == IF frame.pagination.limit < 1 THEN 1 ELSE frame.pagination.limit
        total == Len(frame.displayBalances)
    IN  /\ response.pagination.page = page
        /\ response.pagination.limit = limit
        /\ response.pagination.totalPages = JsNumber((total + limit - 1) \div limit)
        /\ response.pagination.hasMore = (page * limit < total)
        /\ response.balances
             = SubSeq(frame.displayBalances, (page - 1) * limit + 1,
                      IF page * limit < total THEN page * limit ELSE total)

\* C8: pagination.total is the number of entries of the filtered set,
\* totalPages is ceil(total / limit) and hasMore is page * limit < total, for
\* the page and limit that the response reports.
C8_PaginationBlock ==
  Answered =>
    LET pg == response.pagination
    IN  /\ pg.total = Len(frame.displayBalances)
        /\ pg.hasMore = (pg.page * pg.limit < pg.total)
        /\ pg.limit >= 1 =>
             /\ pg.totalPages.kind = "number"
             /\ pg.totalPages.v * pg.limit >= pg.total
             /\ (pg.totalPages.v - 1) * pg.limit < pg.total
        /\ pg.limit = 0 =>
             pg.totalPages.kind = (IF pg.total = 0 THEN "NaN" ELSE "Infinity")

\* three entries, page 2, limit 1: one entry on the page, totalPages 3,
\* hasMore true
C8_Witness ==
  /\ Answered
  /\ response.pagination
       = [total |-> 3, page |-> 2, limit |-> 1, totalPages |-> JsNumber(3),
          hasMore |-> TRUE]
  /\ Len(response.balances) = 1

\* the balances and the hasMore of the call with the arguments of the
\* answered one and page p
BalancesOfPage(p) ==
  IF frame.branch = "main"
  THEN paginatedBalances(frame.displayBalances,
                         [page |-> p, limit |-> frame.pagination.limit])
  ELSE EmptyResponse([page |-> p, limit |-> frame.pagination.limit]).balances

HasMoreOfPage(p) ==
  IF frame.branch = "main"
  THEN PaginationBlock(frame.displayBalances,
                       [page |-> p, limit |-> frame.pagination.limit]).hasMore
  ELSE EmptyResponse([page |-> p, limit |-> frame.pagination.limit]).pagination.hasMore

RECURSIVE PagesUpTo(_)

PagesUpTo(p) == IF p = 0 THEN <<>> ELSE PagesUpTo(p - 1) \o BalancesOfPage(p)

\* C9: for limit >= 1, the pages 1 .. totalPages of a call, one after the
\* other, are the sorted, filtered sequence, and hasMore is true on every one
\* of these pages but the last.
C9_PagesCoverSequence ==
  (Answered /\ frame.pagination.limit >= 1) =>
    LET totalPages == response.pagination.totalPages.v
    IN  /\ PagesUpTo(totalPages) = frame.displayBalances
        /\ \A p \in 1..totalPages : HasMoreOfPage(p) = (p < totalPages)

\* three entries in pages of two: two pages, the second one short
C9_Witness ==
  /\ Answered
  /\ frame.pagination.limit = 2
  /\ Len(frame.displayBalances) = 3
  /\ response.pagination.totalPages = JsNumber(2)
  /\ Len(BalancesOfPage(1)) = 2
  /\ Len(BalancesOfPage(2)) = 1
  /\ HasMoreOfPage(1)
  /\ ~HasMoreOfPage(2)

\* the entries of a sequence that have the given type
OfType(entries, type) ==
  LET hit(b) == b.type = type
  IN  SelectSeq(entries, hit)

\* the entries of a sequence whose usdValue is not zero
Valued(entries) ==
  LET hit(b) == ~ZeroValued(b)
  IN  SelectSeq(entries, hit)

\* C10: with showZeroBalances = false the entries left out are exactly those
\* whose usdValue is zero, and the page, pagination.total, spotTotal and
\* fundingTotal are those of the entries that remain; with showZeroBalances =
\* true no entry is left out.
C10_ZeroFilter ==
  (Answered /\ frame.branch = "main") =>
    LET remaining == IF frame.showZeroBalances THEN frame.processedBalances
                     ELSE Valued(frame.processedBalances)
    IN  /\ frame.displayBalances = remaining
        /\ response.pagination.total = Len(remaining)
        /\ \A k \in 1..Len(response.balances) :
             \E i \in 1..Len(remaining) : response.balances[k] = remaining[i]
        /\ response.spotTotal = calculateTotal(OfType(remaining, "spot"))
        /\ response.fundingTotal = calculateTotal(OfType(remaining, "funding"))

\* a call with showZeroBalances = false that keeps an entry worth 1e-17 and
\* leaves out an entry worth nothing
C10_Witness ==
  /\ Answered
  /\ ~frame.showZeroBalances
  /\ \E i \in 1..Len(frame.processedBalances) :
       /\ ZeroValued(frame.processedBalances[i])
       /\ \A k \in 1..Len(frame.displayBalances) :
            frame.displayBalances[k] # frame.processedBalances[i]
  /\ \E k \in 1..Len(frame.displayBalances) :
       /\ frame.displayBalances[k].usdValue = <<"1", "e", "-", "1", "7">>
       /\ \E n \in 1..Len(response.balances) :
            response.balances[n] = frame.displayBalances[k]
  /\ response.pagination.total = Len(frame.displayBalances)
  /\ Len(frame.displayBalances) < Len(frame.processedBalances)

\* C11: the zero-value filter applied to a set that it has already filtered
\* returns that set unchanged, the same entries in the same order.
C11_FilterIdempotent ==
  (Answered /\ frame.branch = "main") =>
    LET once == displayBalances(frame.processedBalances, FALSE)
    IN  /\ displayBalances(once, FALSE) = once
        /\ ~frame.showZeroBalances =>
             displayBalances(frame.displayBalances, FALSE) = frame.displayBalances

\* a filtered call in which the filter has left out two entries and kept one
C11_Witness ==
  /\ Answered
  /\ frame.branch = "main"
  /\ ~frame.showZeroBalances
  /\ Len(frame.displayBalances) = 1
  /\ Len(frame.processedBalances) = 3
  /\ ZeroValued(frame.processedBalances[2])
  /\ ZeroValued(frame.processedBalances[3])
  /\ displayBalances(frame.displayBalances, FALSE) = <<frame.processedBalances[1]>>

\* C12: spotTotal is the sum of the usdValue of the filtered entries of type
\* spot and fundingTotal that of the filtered entries of type funding, also
\* when an entry has contributions of tokens with different prices.
C12_TypeTotalsAreSumsOfUsdValue ==
  (Answered /\ frame.branch = "main") =>
    /\ response.spotTotal
         = toNumber(ExactSumOfUsdValues(OfType(frame.displayBalances, "spot")))
    /\ response.fundingTotal
         = toNumber(ExactSumOfUsdValues(OfType(frame.displayBalances, "funding")))

\* the number that the usdValue of an entry stands for
NumValueOf(entry) == toNumber(ParseDecimal(entry.usdValue))

\* the sum, over the entries with an amount above zero and a change
\* percentage on their token, of value * changePercent24h / 100
RECURSIVE WeightedChange(_, _, _)

WeightedChange(entries, i, sum) ==
  IF i > Len(entries) THEN sum
  ELSE LET entry == entries[i]
           counts == /\ NumPositive(NumOfString(entry.balance))
                     /\ entry.token.changePercent24h # <<>>
           part == NumMul(NumValueOf(entry),
                          NumDiv(NumOfString(entry.token.changePercent24h), Hundred))
       IN  WeightedChange(entries, i + 1, IF counts THEN NumAdd(sum, part) ELSE sum)

\* C13: change24h is the sum, over the filtered entries with an amount above
\* zero and a known changePercent24h, of the entry's value times
\* changePercent24h / 100, every entry counted once; the other entries add 0.
C13_Change24hIsWeightedSum ==
  (Answered /\ frame.branch = "main") =>
    response.change24h = WeightedChange(frame.displayBalances, 1, NumZero)

\* the portfolio of the call is worth nothing: no wallets, no records, or
\* only entries whose usdValue is zero
WorthNothing ==
  \A i \in 1..Len(frame.processedBalances) : ZeroValued(frame.processedBalances[i])

\* C14: when the portfolio is worth nothing the call returns change24h = 0
\* and changePercent24h = 0 (a number, never NaN or Infinity) and does not
\* throw.
C14_ZeroValueGivesZeroChange ==
  (Answered /\ WorthNothing) =>
    /\ response.change24h = NumZero
    /\ response.changePercent24h = NumZero

\* C15: when the total that the call reports is above zero, changePercent24h
\* is change24h / total * 100.
C15_ChangePercentOfReportedTotal ==
  (Answered /\ frame.branch = "main" /\ NumPositive(response.total)) =>
    response.changePercent24h
      = NumMul(NumDiv(response.change24h, response.total), Hundred)

\* C16: the usdValue of the contribution of every record is the record's
\* amount times the currentPrice of the record's own token, and 0, without an
\* error, when that price is missing or zero.
C16_UsdValueOfRecord ==
  (Answered /\ frame.branch = "main") =>
    \A i \in 1..Len(frame.processedBalances) :
      LET entry == frame.processedBalances[i]
          mine  == RecordsOf(frame.balances, entry)
      IN  \A n \in 1..Len(mine) :
            LET amount == ParseDecimal(rawBalance(mine[n]))
                price  == ParseDecimal(OrZero(mine[n].token.currentPrice))
            IN  /\ ParseDecimal(entry.networks[n].usdValue) = ExactTimes(amount, price)
                /\ IsZero(price) => entry.networks[n].usdValue = <<"0">>

\* the token of an entry has no current price
Priceless(entry) == entry.token.currentPrice = <<>>

\* the entries of a sequence whose token has a current price
Priced(entries) ==
  LET hit(b) == ~Priceless(b)
  IN  SelectSeq(entries, hit)

\* C17: an entry whose token has no current price is in the result set of
\* the call with usdValue 0, and spotTotal, fundingTotal, change24h and
\* changePercent24h are what they are without it.
C17_PricelessEntryKept ==
  (Answered /\ frame.branch = "main") =>
    /\ \A i \in 1..Len(frame.processedBalances) :
         Priceless(frame.processedBalances[i]) =>
           /\ frame.processedBalances[i].usdValue = <<"0">>
           /\ \E k \in 1..Len(frame.displayBalances) :
                frame.displayBalances[k] = frame.processedBalances[i]
    /\ LET priced == Priced(frame.displayBalances)
           loop == ChangeLoop(priced, frame.found)
       IN  /\ response.spotTotal = Totals(priced).spotTotal
           /\ response.fundingTotal = Totals(priced).fundingTotal
           /\ response.change24h = loop.totalChange24h
           /\ response.changePercent24h = changePercent24h(loop)

\* the amount of a record, or the price of its token when it has one, is not
\* a decimal string; the empty amount is the empty string
Malformed(balance) ==
  \/ ~IsDecimalString(balance.balance)
  \/ balance.token.currentPrice # <<>> /\ ~IsDecimalString(balance.token.currentPrice)

\* C18: a call that is given a record with a malformed amount or price, the
\* empty string included, fails with an error and returns no snapshot.
C18_MalformedDecimalFails ==
  (Called /\ \E i \in 1..Len(frame.balances) : Malformed(frame.balances[i])) =>
    /\ Failed
    /\ response = ErrorResponse

\* C19: a call for a user without active wallets, and a call that finds no
\* balance record, does not throw and returns the empty snapshot with every
\* field defined: balances = [], total, spotTotal, fundingTotal, change24h
\* and changePercent24h 0, pagination.total 0, totalPages 0, hasMore false.
C19_EmptySnapshot ==
  (Called /\ frame.balances = <<>>) =>
    /\ Answered
    /\ response.balances = <<>>
    /\ response.total = NumZero
    /\ response.spotTotal = NumZero
    /\ response.fundingTotal = NumZero
    /\ response.change24h = NumZero
    /\ response.changePercent24h = NumZero
    /\ response.pagination.total = 0
    /\ response.pagination.totalPages = JsNumber(0)
    /\ response.pagination.hasMore = FALSE

\* the values of a response that are about the whole filtered set
Summary(r) ==
  [total |-> r.total, spotTotal |-> r.spotTotal, fundingTotal |-> r.fundingTotal,
   change24h |-> r.change24h, changePercent24h |-> r.changePercent24h,
   paginationTotal |-> r.pagination.total]

\* the response that the answered call returns under another pagination:
\* that of its filtered set and of its locals spotTotal, fundingTotal,
\* totalChange24h, totalValue and changePercent24h
ResponseOfPage(pagination) ==
  IF frame.branch = "main"
  THEN MainResponse(frame.displayBalances, pagination, frame.totals, frame.loop,
                    frame.changePercent24h)
  ELSE EmptyResponse(pagination)

\* the answered call has returned the summary that it returns under the
\* default pagination; as this holds of the call of every page and limit,
\* all of them return the same summary
SameSummaryOnEveryPage ==
  Summary(response) = Summary(ResponseOfPage(DefaultPagination))

\* C20: for fixed records, type and showZeroBalances, total, spotTotal,
\* fundingTotal, change24h, changePercent24h and pagination.total are the
\* same for every page and limit: the sums of the loop are those of the
\* whole filtered set, and pagination.total is its length.
C20_TotalsIndependentOfPage ==
  Answered =>
    /\ response.pagination.total = Len(frame.displayBalances)
    /\ frame.branch = "main" =>
         frame.loop = ChangeLoop(frame.displayBalances, frame.found)
    /\ SameSummaryOnEveryPage

\* page 2 of two valued entries in pages of one: the page holds the entry of
\* lesser value, the totals are those of both
C20_Witness ==
  /\ Answered
  /\ frame.branch = "main"
  /\ frame.pagination = [page |-> 2, limit |-> 1]
  /\ Len(frame.displayBalances) = 2
  /\ ~ZeroValued(frame.displayBalances[2])
  /\ response.balances = <<frame.displayBalances[2]>>
  /\ response.pagination.total = 2
  /\ NumPositive(response.spotTotal)
  /\ NumPositive(response.fundingTotal)
  /\ response.change24h # NumZero

\* the other type, the total of a type in a response, entries of one type
OtherType(type) == IF type = "spot" THEN "funding" ELSE "spot"

TotalOfType(r, type) == IF type = "spot" THEN r.spotTotal ELSE r.fundingTotal

HasType(entries, type) ==
  \A i \in 1..Len(entries) :
    /\ entries[i].type = type
    /\ \A n \in 1..Len(entries[i].networks) : entries[i].networks[n].type = type

\* C21: a call for one type aggregates only the records of that type: every
\* entry, returned or not, and every contribution has that type and the total
\* of the other type is 0; a call for all types aggregates the records of both
\* types, and a spot and a funding holding of one baseSymbol are two entries
C21_OnlyAskedTypeAggregated ==
  Answered =>
    IF frame.type \in BalanceTypes
    THEN /\ HasType(frame.processedBalances, frame.type)
         /\ HasType(response.balances, frame.type)
         /\ \A i \in 1..Len(balances) :
              (balances[i].walletId \in ActiveWallets(wallets) /\ balances[i].type = frame.type)
                => \E e \in 1..Len(frame.processedBalances) :
                     EntryPair(frame.processedBalances[e])
                       = <<Tokens[balances[i].tokenId].baseSymbol, frame.type>>
         /\ TotalOfType(response, OtherType(frame.type)) = NumZero
    ELSE /\ \A i \in 1..Len(balances) :
              balances[i].walletId \in ActiveWallets(wallets)
                => \E e \in 1..Len(frame.processedBalances) :
                     EntryPair(frame.processedBalances[e])
                       = <<Tokens[balances[i].tokenId].baseSymbol, balances[i].type>>
         /\ \A i, j \in 1..Len(frame.processedBalances) :
              i # j => EntryPair(frame.processedBalances[i])
                         # EntryPair(frame.processedBalances[j])

\* two records of one key whose tokens differ in symbol, name or decimals
Metadata(token) == <<token.symbol, token.name, token.decimals>>

MixedMetadata(in) ==
  \E i, j \in 1..Len(in) :
    /\ i < j
    /\ RecordPair(in[i]) = RecordPair(in[j])
    /\ Metadata(in[i].token) # Metadata(in[j].token)

\* C22: the symbol, name and decimals of an aggregated entry are those of the
\* first record of its key in the input, whatever the later records of the key
\* carry, and records of one key with different metadata do not make the call
\* fail (a call fails on a malformed amount only).
C22_MetadataOfFirstRecord ==
  /\ Answered =>
       \A i \in 1..Len(frame.processedBalances) :
         LET entry == frame.processedBalances[i]
             first == RecordsOf(frame.balances, entry)[1]
         IN  /\ Metadata(entry) = Metadata(first.token)
             /\ entry.token = first.token
  /\ Failed => \E i \in 1..Len(frame.balances) : Malformed(frame.balances[i])

\* an answered call on two records of one key whose tokens have different
\* names: the entry carries the name of the first and the amounts of both
C22_Witness ==
  /\ Answered
  /\ MixedMetadata(frame.balances)
  /\ \E i \in 1..Len(frame.processedBalances) :
       LET entry == frame.processedBalances[i]
           mine  == RecordsOf(frame.balances, entry)
       IN  /\ Len(mine) >= 2
           /\ Len(entry.networks) = Len(mine)
           /\ entry.name = mine[1].token.name
           /\ entry.name # mine[Len(mine)].token.name

\* the position in the input of the first record of the key of an entry
FirstSeenAt(in, entry) ==
  Least({k \in 1..Len(in) : RecordPair(in[k]) = EntryPair(entry)})

\* the entries follow each other as the first records of their keys do
InFirstSeenOrder(in, entries) ==
  \A i \in 1..Len(entries) - 1 :
    FirstSeenAt(in, entries[i]) < FirstSeenAt(in, entries[i + 1])

\* C23: the entries are created in the order in which their keys are first seen
\* in the input, and entries that the comparator holds equal (the same non-zero
\* usdValue, or zero-valued with the same symbol) are returned in that order.
C23_StableInFirstSeenOrder ==
  Answered =>
    /\ frame.branch = "main" =>
         InFirstSeenOrder(frame.balances, frame.combinedBalances)
    /\ \A i, j \in 1..Len(frame.processedBalances) :
         (i < j /\ SortCompare(frame.processedBalances[i], frame.processedBalances[j]) = 0)
           => FirstSeenAt(frame.balances, frame.processedBalances[i])
                < FirstSeenAt(frame.balances, frame.processedBalances[j])

\* a call that returns a valued entry between two entries of one equal value:
\* the funding holding was seen before the spot holding and stays before it
C23_Witness ==
  /\ Answered
  /\ \E i, j \in 1..Len(frame.processedBalances) :
       /\ i < j
       /\ ~ZeroValued(frame.processedBalances[i])
       /\ frame.processedBalances[i].usdValue = frame.processedBalances[j].usdValue
       /\ frame.processedBalances[i].type = "funding"
       /\ frame.processedBalances[j].type = "spot"

\* a step in which a getBalances call runs
GetBalancesStep == frame = NoFrame /\ frame' # NoFrame /\ frame'.op = "getBalances"

\* C24: a getBalances call writes to no store and leaves the records it was
\* given as they were read: after the call the stored wallets and rows are the
\* ones before it, and the call's input is still what the query reads from them.
C24_StoresAndInputUnchanged ==
  [][GetBalancesStep =>
       /\ wallets' = wallets
       /\ balances' = balances
       /\ frame'.balances = QueryBalances(ActiveWallets(wallets'), balances', frame'.type)]_vars

\* an answered call that has merged two of three stored rows into one entry,
\* one of them with an empty amount
C24_Witness ==
  /\ Answered
  /\ Len(balances) = 3
  /\ \E i \in 1..Len(balances) : balances[i].balance = EmptyAmount
  /\ \E i \in 1..Len(frame.processedBalances) :
       Len(frame.processedBalances[i].networks) = 2

\* the number of contributions of the entries from the i-th on
RECURSIVE CountNetworks(_, _)

CountNetworks(entries, i) ==
  IF i > Len(entries) THEN 0
  ELSE Len(entries[i].networks) + CountNetworks(entries, i + 1)

\* the contribution is the one of the record
ContributionOf(network, balance) ==
  /\ network.blockchain = balance.token.blockchain
  /\ network.networkVersion = balance.token.networkVersion
  /\ network.balance = rawBalance(balance)
  /\ network.type = balance.type

\* C26: the entries of a call hold as many contributions as the call has input
\* records, every entry holds at least one, and the contribution of every
\* record is in the entry of the record's own (baseSymbol, type) pair.
C26_ContributionsPartitionInput ==
  Answered =>
    /\ CountNetworks(frame.processedBalances, 1) = Len(frame.balances)
    /\ \A i \in 1..Len(frame.processedBalances) :
         Len(frame.processedBalances[i].networks) >= 1
    /\ \A k \in 1..Len(frame.balances) :
         \E i \in 1..Len(frame.processedBalances) :
           /\ EntryPair(frame.processedBalances[i]) = RecordPair(frame.balances[k])
           /\ \E n \in 1..Len(frame.processedBalances[i].networks) :
                ContributionOf(frame.processedBalances[i].networks[n], frame.balances[k])

\* three records in two entries: one entry with two contributions, the other
\* with one
C26_Witness ==
  /\ Answered
  /\ Len(frame.balances) = 3
  /\ Len(frame.processedBalances) = 2
  /\ \E i, j \in 1..2 :
       /\ Len(frame.processedBalances[i].networks) = 2
       /\ Len(frame.processedBalances[j].networks) = 1

\* the entries that the loop of lines 316-328 counts: those with an amount
\* above zero
Contributing(display) ==
  LET counts(b) == NumPositive(NumOfString(b.balance))
  IN  SelectSeq(display, counts)

\* the changePercent24h of the token of an entry, as a number
PercentOf(entry) == NumOfString(entry.token.changePercent24h)

\* x <= y for numbers
NumLeq(x, y) ==
  IF x.neg # y.neg THEN x.neg
  ELSE IF x.neg THEN Cmp(y, x) <= 0
  ELSE Cmp(x, y) <= 0

\* C27: when the call counts at least one entry and every entry it counts has
\* a value above zero, changePercent24h is not below the smallest and not
\* above the largest changePercent24h of the tokens of those entries, and so
\* is their common percentage when they all have the same.
C27_ChangePercentWithinTokenRange ==
  (/\ Answered
   /\ frame.branch = "main"
   /\ Contributing(frame.displayBalances) # <<>>
   /\ \A i \in 1..Len(Contributing(frame.displayBalances)) :
        NumPositive(NumValueOf(Contributing(frame.displayBalances)[i])))
  => LET counted == Contributing(frame.displayBalances)
     IN  \E lo, hi \in 1..Len(counted) :
           /\ NumLeq(PercentOf(counted[lo]), response.changePercent24h)
           /\ NumLeq(response.changePercent24h, PercentOf(counted[hi]))

\* a getTotalBalance call has returned a number
Totalled == frame # NoFrame /\ frame.op = "getTotalBalance" /\ frame.branch = "main"

\* the entries of the whole portfolio of a type, zero-valued ones included
Portfolio(type) ==
  processBalancesWithNetworks(QueryBalances(ActiveWallets(wallets), balances, type))

\* the spot total plus the funding total of a list of entries
TotalOfEntries(entries) ==
  NumAdd(calculateTotal(OfType(entries, "spot")),
         calculateTotal(OfType(entries, "funding")))

Pairs == {<<"ethereum", "mainnet">>, <<"dogecoin", "mainnet">>}

\* token.metadata.networks of the seeded token rows
TokenNetworks ==
  [id \in TokenIds |-> IF id = "t4" THEN {"mainnet"} ELSE {"mainnet", "testnet"}]

TokenSeq == <<"t1", "t2", "t3", "t4">>

\* the tokens of the query at lines 79-85, in the order of the table
MatchingTokens(wallet) ==
  LET network == IF wallet.network = "mainnet" THEN "mainnet" ELSE "testnet"
      hit(id) == /\ Tokens[id].blockchain = wallet.blockchain
                 /\ network \in TokenNetworks[id]
  IN  SelectSeq(TokenSeq, hit)

\* the rows saved at lines 91-108: a spot and a funding row of '0' per token
InitialRows(wallet) ==
  LET tokens == MatchingTokens(wallet)
  IN  AsSeq([i \in 1..(2 * Len(tokens)) |->
               [walletId |-> wallet.id,
                tokenId |-> tokens[(i + 1) \div 2],
                type |-> IF i % 2 = 1 THEN "spot" ELSE "funding",
                balance |-> <<"0">>]])

WalletIdSeq == <<"w1", "w2", "w3", "w4">>

\* the id that the database gives a new wallet row: one that no row has
FreshId(rows) ==
  WalletIdSeq[Least({i \in 1..Len(WalletIdSeq) :
                       \A w \in rows : w.id # WalletIdSeq[i]})]

\* the contents of the stores at one instant
Store(ws, bs) == [wallets |-> ws, balances |-> bs]

\* history: every getBalances call in progress notes the store contents that a
\* write of another request leaves
Saw(cs, ws, bs) ==
  [c \in Clients |->
     IF cs[c].op = "getBalances" /\ cs[c].pc = "getMany"
     THEN [cs[c] EXCEPT !.seen = @ \cup {Store(ws, bs)}]
     ELSE cs[c]]

\* createWallet, lines 35-48: the check for an active wallet of the pair
createWallet_findOne(c, dto) ==
  /\ calls[c] = Idle
  /\ LET existingWallet ==
           {w \in wallets : /\ w.blockchain = dto[1]
                            /\ w.network = dto[2]
                            /\ w.status = "active"}
     IN  calls' = [calls EXCEPT ![c] =
                     IF existingWallet # {}
                     THEN [op |-> "createWallet", pc |-> "done", dto |-> dto,
                           result |-> "BadRequestException"]
                     ELSE [op |-> "createWallet", pc |-> "save", dto |-> dto]]
  /\ UNCHANGED <<wallets, balances, frame, response, users>>

\* createWallet, lines 51-69: the wallet row is saved; its status is the
\* default of the column
createWallet_save(c) ==
  /\ calls[c].op = "createWallet"
  /\ calls[c].pc = "save"
  /\ Cardinality(wallets) < MaxWallets
  /\ wallets' = wallets \cup {[id |-> FreshId(wallets),
                               blockchain |-> calls[c].dto[1],
                               network |-> calls[c].dto[2],
                               status |-> "active"]}
  /\ calls' = Saw([calls EXCEPT ![c] =
                     [op |-> "createWallet", pc |-> "initialize", dto |-> calls[c].dto,
                      wallet |-> [id |-> FreshId(wallets),
                                  blockchain |-> calls[c].dto[1],
                                  network |-> calls[c].dto[2],
                                  status |-> "active"]]],
                  wallets', balances)
  /\ UNCHANGED <<balances, frame, response, users>>

\* initializeWalletBalances(wallet), lines 77-116, and the return of line 74
initializeWalletBalances(c) ==
  /\ calls[c].op = "createWallet"
  /\ calls[c].pc = "initialize"
  /\ balances' = balances \o InitialRows(calls[c].wallet)
  /\ calls' = Saw([calls EXCEPT ![c] =
                     [op |-> "createWallet", pc |-> "done", dto |-> calls[c].dto,
                      result |-> calls[c].wallet]],
                  wallets, balances')
  /\ UNCHANGED <<wallets, frame, response, users>>

\* getBalances(userId, type), lines 254-278: the active wallets are read
getBalances_find(c, type) ==
  /\ calls[c] = Idle
  /\ calls' = [calls EXCEPT ![c] =
                 IF ActiveWallets(wallets) = {}
                 THEN [op |-> "getBalances", pc |-> "done", type |-> type,
                       walletIds |-> {}, seen |-> {Store(wallets, balances)},
                       response |-> EmptyResponse(DefaultPagination)]
                 ELSE [op |-> "getBalances", pc |-> "getMany", type |-> type,
                       walletIds |-> ActiveWallets(wallets),
                       seen |-> {Store(wallets, balances)}]]
  /\ UNCHANGED <<wallets, balances, frame, response, users>>

\* getBalances, lines 280-348: the rows of those wallets are read and the
\* response is built
getBalances_getMany(c) ==
  /\ calls[c].op = "getBalances"
  /\ calls[c].pc = "getMany"
  /\ \E data \in DefaultResponses(QueryBalances(calls[c].walletIds, balances,
                                                calls[c].type)) :
       calls' = [calls EXCEPT ![c] =
                   [op |-> "getBalances", pc |-> "done", type |-> calls[c].type,
                    walletIds |-> calls[c].walletIds, seen |-> calls[c].seen,
                    response |-> data]]
  /\ UNCHANGED <<wallets, balances, frame, response, users>>

\* updateBalance, lines 192-220, while other calls are in progress; the calls
\* are for the first token of the chain of the wallet
updateBalance_amid(walletId, tokenId, amount, type) ==
  /\ \E w \in wallets : w.id = walletId /\ MatchingTokens(w)[1] = tokenId
  /\ SaveBalance(walletId, tokenId, amount, type)
  /\ calls' = Saw(calls, wallets, balances')
  /\ UNCHANGED <<wallets, frame, response, users>>

\* the result of a call goes to its client
ReturnCall(c) ==
  /\ calls[c] # Idle
  /\ calls[c].pc = "done"
  /\ calls' = [calls EXCEPT ![c] = Idle]
  /\ UNCHANGED <<wallets, balances, frame, response, users>>

\* the getBalances request that is followed runs on the first client; another
\* getBalances request writes to no store, so its steps change nothing for
\* the requests beside it
Readers == {1}

\* a new user, without wallets
ConcurrentInit ==
  /\ wallets = {}
  /\ balances = <<>>
  /\ frame = NoFrame
  /\ response = NoResponse
  /\ calls = NoCalls
  /\ users = NewUsers

ConcurrentNext ==
  \/ \E c \in Clients, dto \in Pairs : createWallet_findOne(c, dto)
  \/ \E c \in Clients : createWallet_save(c)
  \/ \E c \in Clients : initializeWalletBalances(c)
  \/ \E c \in Readers : getBalances_find(c, "")
  \/ \E c \in Clients : getBalances_getMany(c)
  \/ \E walletId \in WalletIds, tokenId \in TokenIds :
       updateBalance_amid(walletId, tokenId, <<"1", "0", "0">>, "spot")
  \/ \E c \in Clients : ReturnCall(c)

ConcurrentSpec == ConcurrentInit /\ [][ConcurrentNext]_vars

\* the responses that a getBalances call that runs without interruption may
\* give on the store contents s
Uninterrupted(s, type) ==
  IF ActiveWallets(s.wallets) = {} THEN {EmptyResponse(DefaultPagination)}
  ELSE DefaultResponses(QueryBalances(ActiveWallets(s.wallets), s.balances, type))

\* C25: whatever steps of other requests run between the steps of a
\* getBalances request, the response is one that a getBalances call without
\* interruption gives on the store contents of one instant of the request, so
\* that balances, totals and changes come from the same amounts and prices.
C25_SnapshotOfOneInstant ==
  \A c \in Clients :
    (calls[c].op = "getBalances" /\ calls[c].pc = "done") =>
      \E s \in calls[c].seen : calls[c].response \in Uninterrupted(s, calls[c].type)

\* the active wallets of one (blockchain, network) pair
ActiveOfPair(rows, blockchain, network) ==
  {w \in rows : /\ w.blockchain = blockchain
                /\ w.network = network
                /\ w.status = "active"}

\* at most one active wallet for every pair
OneActiveWalletPerPair ==
  \A a, b \in wallets :
    b \in ActiveOfPair(wallets, a.blockchain, a.network) /\ a.status = "active" => a = b

\* a createWallet call for a pair that has an active wallet ends with
\* BadRequestException, having written nothing
RefusesSecondWallet ==
  \A c \in Clients, dto \in Pairs :
    (createWallet_findOne(c, dto) /\ ActiveOfPair(wallets, dto[1], dto[2]) # {})
      => /\ calls'[c].pc = "done"
         /\ calls'[c].result = "BadRequestException"
         /\ wallets' = wallets
         /\ balances' = balances

\* a createWallet call that succeeds has added one wallet row and, per token of
\* the wallet's chain and network, one spot and one funding row of '0'
CreatesZeroRows ==
  \A c \in Clients :
    initializeWalletBalances(c)
      => LET wallet == calls'[c].result
             added  == SubSeq(balances', Len(balances) + 1, Len(balances'))
         IN  /\ wallet \in wallets
             /\ SubSeq(balances', 1, Len(balances)) = balances
             /\ \A i \in 1..Len(added) :
                  added[i].walletId = wallet.id /\ added[i].balance = <<"0">>
             /\ \A t \in 1..Len(MatchingTokens(wallet)), type \in BalanceTypes :
                  Cardinality({i \in 1..Len(added) :
                                 /\ added[i].tokenId = MatchingTokens(wallet)[t]
                                 /\ added[i].type = type}) = 1
             /\ Len(added) = 2 * Len(MatchingTokens(wallet))

\* C29: whatever the interleaving of the createWallet calls, a user has at most
\* one active wallet per (blockchain, network) pair; a call for a pair that
\* has an active wallet fails with BadRequestException and creates nothing, and
\* a call that succeeds creates one spot and one funding row of '0' per
\* matching token.
C29_OneActiveWalletPerPair ==
  /\ []OneActiveWalletPerPair
  /\ [][RefusesSecondWallet]_vars
  /\ [][CreatesZeroRows]_vars

(***************************************************************************)
(* AuthService: two-factor authentication.  users[u] holds the 2FA columns *)
(* of a user row; frame and response hold the last call and its outcome.   *)
(***************************************************************************)
\* the base32 secrets that speakeasy.generateSecret may return
Secrets == {[kind |-> "base32", text |-> "S1"], [kind |-> "base32", text |-> "S2"]}

\* the codes that a caller may send: the one-time codes of the two secrets at
\* the time of the call, a code of six digits that belongs to neither, and
\* one of another length
Codes == {"code of S1", "code of S2", "000000", "12345"}

\* speakeasy.totp.verify({ secret, encoding: 'base32', token })
TotpVerify(secret, token) ==
  /\ secret.kind = "base32"
  /\ \/ secret.text = "S1" /\ token = "code of S1"
     \/ secret.text = "S2" /\ token = "code of S2"

\* the lists that generateBackupCodes may return, lines 413-419
BackupCodeLists == {<<"a1b2c3d4", "0f0f0f0f">>, <<"deadbeef", "00c0ffee">>}

\* encryptBackupCodes, lines 318-343: the JSON text of an object with the
\* fields iv, data and tag
encryptBackupCodes(codes) == [json |-> "object", iv |-> "iv", data |-> codes, tag |-> "tag"]

\* the members of the enum DisableCodeType
DisableCodeTypes == {"AUTHENTICATOR", "BACKUP"}

Ok(message) == [kind |-> "ok", message |-> message]

Thrown(exception) == [kind |-> "error", exception |-> exception]

\* the ids that calls are made with: the two users and an id of no user
CallerIds == UserIds \cup {"u0"}

\* generate2FASecret(userId), lines 290-317
generate2FASecret(userId, secret) ==
  /\ frame' = [op |-> "generate2FASecret", userId |-> userId]
  /\ IF userId \notin UserIds
     THEN response' = Thrown("NotFoundException") /\ users' = users
     ELSE IF users[userId].twoFactorEnabled
     THEN response' = Thrown("BadRequestException") /\ users' = users
     ELSE /\ users' = [users EXCEPT ![userId].twoFactorSecret = secret]
          /\ response' = [kind |-> "ok", secret |-> secret]
  /\ UNCHANGED <<wallets, balances, calls>>

\* enable2FA that does not verify the code
enable2FA_WithoutVerify(userId, code, backupCodes, emailSent) ==
  /\ frame' = [op |-> "enable2FA", userId |-> userId, code |-> code]
  /\ IF userId \notin UserIds
     THEN response' = Thrown("NotFoundException") /\ users' = users
     ELSE /\ users' = [users EXCEPT
                         ![userId].twoFactorEnabled = TRUE,
                         ![userId].twoFactorBackupCodes = encryptBackupCodes(backupCodes)]
          /\ response' = IF emailSent
                         THEN [kind |-> "ok", backupCodes |-> backupCodes]
                         ELSE Thrown("Error")
  /\ UNCHANGED <<wallets, balances, calls>>

\* enable2FA(userId, { code }), lines 371-411; totp.verify is given the stored
\* secret as it is, and decodes it: a null secret ends the call in a TypeError
enable2FA(userId, code, backupCodes, emailSent) ==
  /\ frame' = [op |-> "enable2FA", userId |-> userId, code |-> code]
  /\ IF userId \notin UserIds
     THEN response' = Thrown("NotFoundException") /\ users' = users
     ELSE IF users[userId].twoFactorSecret = Null
     THEN response' = Thrown("TypeError") /\ users' = users
     ELSE IF ~TotpVerify(users[userId].twoFactorSecret, code)
     THEN response' = Thrown("UnauthorizedException") /\ users' = users
     ELSE /\ users' = [users EXCEPT
                         ![userId].twoFactorEnabled = TRUE,
                         ![userId].twoFactorBackupCodes = encryptBackupCodes(backupCodes)]
          /\ response' = IF emailSent
                         THEN [kind |-> "ok", backupCodes |-> backupCodes]
                         ELSE Thrown("Error")
  /\ UNCHANGED <<wallets, balances, calls>>

\* disable2FA(userId, code, codeType), lines 453-495; JSON.parse of the stored
\* backup codes gives the object of encryptBackupCodes, which has no method
\* includes: the call with a backup code ends in a TypeError
disable2FA(userId, code, codeType, emailSent) ==
  /\ frame' = [op |-> "disable2FA", userId |-> userId, code |-> code,
               codeType |-> codeType]
  /\ IF userId \notin UserIds
     THEN response' = Thrown("NotFoundException") /\ users' = users
     ELSE IF ~users[userId].twoFactorEnabled
     THEN response' = Thrown("BadRequestException") /\ users' = users
     ELSE IF codeType = "BACKUP"
     THEN response' = Thrown("TypeError") /\ users' = users
     ELSE IF ~TotpVerify(users[userId].twoFactorSecret, code)
     THEN response' = Thrown("UnauthorizedException") /\ users' = users
     ELSE /\ users' = [users EXCEPT
                         ![userId].twoFactorEnabled = FALSE,
                         ![userId].twoFactorSecret = Null,
                         ![userId].twoFactorBackupCodes = Null]
          /\ response' = IF emailSent THEN Ok("2FA disabled successfully")
                         ELSE Thrown("Error")
  /\ UNCHANGED <<wallets, balances, calls>>

AuthInit ==
  /\ wallets = {}
  /\ balances = <<>>
  /\ frame = NoFrame
  /\ response = NoResponse
  /\ calls = NoCalls
  /\ users = NewUsers

AuthNext ==
  \/ \E userId \in CallerIds, secret \in Secrets : generate2FASecret(userId, secret)
  \/ \E userId \in CallerIds, code \in Codes, backupCodes \in BackupCodeLists,
        emailSent \in BOOLEAN :
       enable2FA(userId, code, backupCodes, emailSent)
  \/ \E userId \in CallerIds, code \in Codes, codeType \in DisableCodeTypes,
        emailSent \in BOOLEAN :
       disable2FA(userId, code, codeType, emailSent)

AuthSpec == AuthInit /\ [][AuthNext]_vars

\* the call of the step is op and has returned without an exception
Succeeds(op) == frame'.op = op /\ response'.kind = "ok"

\* C30: a user with twoFactorEnabled has a secret and backup codes;
\* generate2FASecret for a user with 2FA enabled fails and leaves the secret;
\* enable2FA succeeds only with a code that is valid for the stored secret;
\* a disable2FA that succeeds clears the flag, the secret and the backup codes.
C30_TwoFactorState ==
  /\ [](\A u \in UserIds :
          users[u].twoFactorEnabled =>
            /\ users[u].twoFactorSecret # Null
            /\ users[u].twoFactorBackupCodes # Null)
  /\ [][\A u \in UserIds :
          (frame'.op = "generate2FASecret" /\ frame'.userId = u
             /\ users[u].twoFactorEnabled)
            => response'.kind = "error" /\ users'[u] = users[u]]_vars
  /\ [][\A u \in UserIds :
          (Succeeds("enable2FA") /\ frame'.userId = u)
            => /\ users[u].twoFactorSecret # Null
               /\ TotpVerify(users[u].twoFactorSecret, frame'.code)
               /\ users'[u].twoFactorSecret = users[u].twoFactorSecret]_vars
  /\ [][\A u \in UserIds :
          (Succeeds("disable2FA") /\ frame'.userId = u)
            => users'[u] = NewUser]_vars

\* one user has disabled 2FA with a code of the authenticator while the other
\* user has it enabled
C30_Witness ==
  /\ frame # NoFrame
  /\ frame.op = "disable2FA"
  /\ response.kind = "ok"
  /\ users[frame.userId] = NewUser
  /\ \E u \in UserIds : users[u].twoFactorEnabled

====
